---- MODULE Spec2Model ----
(***************************************************************************)
(* Model of rust-core/src/lib.rs: the agent registry (a Mutex around a     *)
(* HashMap of boxed agents), the three agents, init_agent_system,          *)
(* execute_agent_task and the exported bifrost_* entry points, called      *)
(* concurrently from several threads.                                      *)
(***************************************************************************)
EXTENDS Integers, Sequences, FiniteSets, TLC

\* ---------------------------------------------------------------- bounds
NumThreads == 2
MaxCalls == 3

Threads == 1..NumThreads

\* ------------------------------------------------------- strings and ids
\* A Rust String built by format!(prefix, arg) is the pair <<prefix, arg>>.
Fmt(prefix, arg) == <<prefix, arg>>
EmptyString == Fmt("", "")

None == <<>>
Some(x) == <<x>>

IdTable == <<"id1", "id2", "id3", "id4", "id5", "id6">>
IdOf(t) == IdTable[t]
\* Uuid::new_v4(): the n-th identifier the generator hands out; a version 4
\* UUID is 122 random bits, taken as never repeating
UuidTable == <<"uuid-a", "uuid-b", "uuid-c", "uuid-d", "uuid-e", "uuid-f">>
Uuids == { UuidTable[i] : i \in DOMAIN UuidTable }
\* variant: the nil UUID for every task
NewV4Nil(n) == UuidTable[1]

NewV4(n) == UuidTable[n + 1]
Commands == {"cmd"}

\* agent_type strings a caller may send
Kinds == {"python", "wasm", "system", "shell", "bash",
          "script", "sandbox", "System"}

\* start_time.elapsed().as_millis() as measured by an agent: a sample
\* duration; the parse and routing failures carry the literal 0 instead
ElapsedMs == {1}

\* ---------------------------------------------------------- wire format
FieldNames == {"id", "agent_type", "command", "args", "environment"}

AgentTask(id, kind, command) ==
    [id |-> id, agent_type |-> kind, command |-> command,
     args |-> "[]", environment |-> "{}"]

\* serde_json::to_string(&task): an object with the five fields
TaskToJson(task) ==
    [syntax |-> "object", present |-> FieldNames, typed |-> TRUE,
     id |-> task.id, agent_type |-> task.agent_type, command |-> task.command]

\* JSON texts a caller may pass: objects with any subset of the fields,
\* objects whose fields have the wrong JSON type, and text that is no JSON.
JsonObject(present, typed, id, kind, command) ==
    [syntax |-> "object", present |-> present, typed |-> typed,
     id |-> id, agent_type |-> kind, command |-> command]

Garbage == [syntax |-> "invalid", present |-> {}, typed |-> FALSE,
            id |-> "", agent_type |-> "", command |-> ""]
EmptyObject == JsonObject({}, TRUE, "", "", "")

\* variant: the bytes taken as text without the UTF-8 check
ToStrUnchecked(input) == input.text

\* c_str.to_str().unwrap_or("{}")
ToStrOr(input) == IF input.utf8 THEN input.text ELSE EmptyObject

\* serde_json::from_str::<AgentTask>
ParseOk(json) ==
    /\ json.syntax = "object"
    /\ json.present = FieldNames
    /\ json.typed

ParseError(json) ==
    IF json.syntax # "object" THEN "expected value"
    ELSE IF json.present # FieldNames THEN "missing field"
    ELSE "invalid type"

ParsedTask(json) == AgentTask(json.id, json.agent_type, json.command)

\* ---------------------------------------------------------------- agents
PythonAgent == "PythonAgent"
WasmAgent == "WasmAgent"
SystemAgent == "SystemAgent"

PythonSupports(agent_type) == agent_type = "python"
\* variant: a capability predicate that also claims the shell's first tag
WasmSupportsOverlapping(agent_type) ==
    agent_type = "wasm" \/ agent_type = "system"

WasmSupports(agent_type) == agent_type = "wasm"
\* variant: the tags compared without regard to case
SystemSupportsAnyCase(agent_type) ==
    agent_type \in {"system", "shell", "bash", "System"}

SystemSupports(agent_type) ==
    agent_type = "system" \/ agent_type = "shell" \/ agent_type = "bash"

Supports(agent, agent_type) ==
    CASE agent = PythonAgent -> PythonSupports(agent_type)
      [] agent = WasmAgent -> WasmSupports(agent_type)
      [] agent = SystemAgent -> SystemSupports(agent_type)

AgentResult(task_id, success, output, error, ms) ==
    [task_id |-> task_id, success |-> success, output |-> output,
     error |-> error, execution_time_ms |-> ms]

\* What the embedded interpreter does with the code: py.run returns Ok with
\* or without __result__ in globals, or Err.
PyOutcomes == {<<"Ok", "result">>, <<"Ok", "noresult">>, <<"Err", "exception">>}

\* variant: the Err of py.run dropped, the result left without an error
PythonExecuteSwallowing(task, outcome, ms) ==
    IF outcome[1] = "Ok"
    THEN AgentResult(task.id, TRUE,
                     IF outcome[2] = "result"
                     THEN Fmt("__result__", task.command)
                     ELSE Fmt("Python code executed successfully", ""),
                     None, ms)
    ELSE AgentResult(task.id, FALSE, EmptyString, None, ms)

PythonExecute(task, outcome, ms) ==
    IF outcome[1] = "Ok"
    THEN AgentResult(task.id, TRUE,
                     IF outcome[2] = "result"
                     THEN Fmt("__result__", task.command)
                     ELSE Fmt("Python code executed successfully", ""),
                     None, ms)
    ELSE AgentResult(task.id, FALSE, EmptyString,
                     Some(Fmt("Python error: ", outcome[2])), ms)

WasmOutcomes == {<<"Ok", "">>}

\* variant: the result built around the sentinel id instead of the task's
WasmExecuteSentinelId(task, outcome, ms) ==
    AgentResult("unknown", TRUE, Fmt("WASM agent executed: ", task.command),
                None, ms)

WasmExecute(task, outcome, ms) ==
    AgentResult(task.id, TRUE, Fmt("WASM agent executed: ", task.command),
                None, ms)

\* What the host does with `sh -c command`: the spawn fails, or the process
\* ends with a zero or non-zero status and an empty or non-empty stderr.
ShOutcomes == {<<"Err", "spawn">>} \cup
              { <<"Ok", st, se>> : st \in {"zero", "nonzero"},
                                   se \in {"", "diagnostic"} }

\* variant: output written to stderr counted as a failure
SystemExecuteStderrFails(task, outcome, ms) ==
    IF outcome[1] = "Ok"
    THEN AgentResult(task.id, outcome[2] = "zero" /\ outcome[3] = "",
                     Fmt("stdout", task.command),
                     IF outcome[3] = "" THEN None
                     ELSE Some(Fmt("stderr", outcome[3])), ms)
    ELSE AgentResult(task.id, FALSE, EmptyString,
                     Some(Fmt("System command error: ", outcome[2])), ms)

SystemExecute(task, outcome, ms) ==
    IF outcome[1] = "Ok"
    THEN AgentResult(task.id, outcome[2] = "zero", Fmt("stdout", task.command),
                     IF outcome[3] = "" THEN None
                     ELSE Some(Fmt("stderr", outcome[3])), ms)
    ELSE AgentResult(task.id, FALSE, EmptyString,
                     Some(Fmt("System command error: ", outcome[2])), ms)

Outcomes(agent) ==
    CASE agent = PythonAgent -> PyOutcomes
      [] agent = WasmAgent -> WasmOutcomes
      [] agent = SystemAgent -> ShOutcomes

Execute(agent, task, outcome, ms) ==
    CASE agent = PythonAgent -> PythonExecute(task, outcome, ms)
      [] agent = WasmAgent -> WasmExecute(task, outcome, ms)
      [] agent = SystemAgent -> SystemExecute(task, outcome, ms)

\* -------------------------------------------------------------- registry
\* HashMap<String, Box<dyn Agent>>: a function from the keys present.
EmptyRegistry == [k \in {} |-> PythonAgent]

\* variant: a list pushed to, where a key already present gets a second
\* entry
InsertAppending(reg, key, agent) ==
    LET slot == IF key \in DOMAIN reg THEN key \o "#2" ELSE key
    IN [k \in (DOMAIN reg) \cup {slot} |-> IF k = slot THEN agent ELSE reg[k]]

Insert(reg, key, agent) ==
    [k \in (DOMAIN reg) \cup {key} |-> IF k = key THEN agent ELSE reg[k]]

\* registry.iter(): a HashMap yields its entries in an unspecified order
IterOrders(reg) ==
    { o \in [1..Cardinality(DOMAIN reg) -> DOMAIN reg] :
        \A i, j \in DOMAIN o : i # j => o[i] # o[j] }

\* the for loop of execute_agent_task over one iteration order: the
\* position of the first entry whose agent supports the type, 0 if none
FirstMatch(reg, order, agent_type) ==
    LET hits == { i \in DOMAIN order : Supports(reg[order[i]], agent_type) }
    IN IF hits = {} THEN 0
       ELSE CHOOSE i \in hits : \A j \in hits : i <= j

ParseFailure(json) ==
    AgentResult("unknown", FALSE, EmptyString,
                Some(Fmt("Failed to parse task JSON: ", ParseError(json))), 0)

\* variant: the routing failure built around the sentinel id
NoAgentFoundSentinelId(task) ==
    AgentResult("unknown", FALSE, EmptyString,
                Some(Fmt("No agent found for type: ", task.agent_type)), 0)

NoAgentFound(task) ==
    AgentResult(task.id, FALSE, EmptyString,
                Some(Fmt("No agent found for type: ", task.agent_type)), 0)

\* ------------------------------------------------------------------ state
VARIABLES
    registry,   \* AGENT_REGISTRY's map: key -> agent
    regOrder,   \* history: the keys in the order they were first inserted
    holders,    \* the threads holding the MutexGuard of AGENT_REGISTRY
    poisoned,   \* the Mutex's poison flag
    aborted,    \* the process was aborted by a panic leaving an extern "C" fn
    pc,         \* where each thread is in the entry point it called
    call,       \* the entry point each thread called last and its argument
    task,       \* the AgentTask execute_agent_task parsed for the thread
    pyNew,      \* whether PythonAgent::new() returned Ok in the thread's init
    invoked,    \* the agents whose execute the thread's current call entered
    result,     \* the AgentResult the thread's last call returned
    initRet,    \* the bool the thread's last bifrost_init returned
    envOutcome, \* what the interpreter or the host did in the execute
    heap,       \* the addresses of the CString buffers that are live
    held,       \* the pointer each thread got from its last call and holds
    nuuid,      \* the identifiers Uuid::new_v4 has generated so far
    ncalls      \* calls started so far

vars == <<registry, regOrder, holders, poisoned, aborted, pc, call, task,
          pyNew, invoked, result, initRet, envOutcome, heap, held, nuuid,
          ncalls>>

\* the null pointer; the buffers live at the addresses above it
Null == 0

NoInput == [utf8 |-> TRUE, text |-> EmptyObject]
\* call[t].input is the text handed to execute_agent_task, call[t].code the
\* code handed to bifrost_run_python
NoCall == [op |-> "none", input |-> NoInput, code |-> ""]
NoTask == AgentTask("", "", "")
NoResult == AgentResult("", FALSE, EmptyString, None, 0)

\* the byte strings thread t passes to bifrost_execute_task
WellFormedInputs(t) ==
    { [utf8 |-> TRUE, text |-> JsonObject(FieldNames, TRUE, IdOf(t), k, c)] :
        k \in Kinds, c \in Commands }

MalformedInputs(t) ==
    { [utf8 |-> FALSE, text |-> JsonObject(FieldNames, TRUE, IdOf(t), "system", "cmd")],
      [utf8 |-> TRUE, text |-> Garbage],
      [utf8 |-> TRUE, text |-> JsonObject(FieldNames, FALSE, IdOf(t), "system", "cmd")],
      [utf8 |-> TRUE,
       text |-> JsonObject(FieldNames \ {"environment"}, TRUE, IdOf(t), "system", "cmd")] }

TaskInputs(t) == WellFormedInputs(t) \cup MalformedInputs(t)

\* the byte strings passed to bifrost_run_python
CodeInputs == { [utf8 |-> u, text |-> c] : u \in BOOLEAN, c \in Commands }

\* c_str.to_str().unwrap_or("")
CodeStr(code) == IF code.utf8 THEN code.text ELSE ""

Init ==
    /\ registry = EmptyRegistry
    /\ regOrder = <<>>
    /\ holders = {}
    /\ poisoned = FALSE
    /\ aborted = FALSE
    /\ pc = [t \in Threads |-> "idle"]
    /\ call = [t \in Threads |-> NoCall]
    /\ task = [t \in Threads |-> NoTask]
    /\ pyNew = [t \in Threads |-> FALSE]
    /\ invoked = [t \in Threads |-> <<>>]
    /\ result = [t \in Threads |-> NoResult]
    /\ initRet = [t \in Threads |-> "none"]
    /\ envOutcome = [t \in Threads |-> None]
    /\ heap = {}
    /\ held = [t \in Threads |-> Null]
    /\ nuuid = 0
    /\ ncalls = 0

\* ------------------------------------------------------------ the Mutex
\* variant: a lock that never blocks
LockAlwaysFree == TRUE

\* Mutex::lock blocks until no thread holds the guard
LockFree == holders = {}

\* variant: the guard leaked instead of dropped
UnlockLeaked(t) == holders

\* dropping the MutexGuard
Unlock(t) == holders \ {t}

\* a panic that leaves the entry point: the thread never gets a value back;
\* out of an extern "C" function the process aborts or the unwinding goes
\* on into the foreign caller
PanicEscapes(t) ==
    /\ pc' = [pc EXCEPT ![t] = "panicked"]
    /\ aborted' \in BOOLEAN

\* a caller starts its next call once it has released the buffer the last
\* one handed to it
CanStart(t) ==
    /\ ~aborted
    /\ pc[t] = "idle"
    /\ held[t] = Null
    /\ ncalls < MaxCalls

StartCall(t, c) ==
    /\ call' = [call EXCEPT ![t] = c]
    /\ invoked' = [invoked EXCEPT ![t] = <<>>]
    /\ pyNew' = [pyNew EXCEPT ![t] = FALSE]
    /\ initRet' = [initRet EXCEPT ![t] = "none"]
    /\ envOutcome' = [envOutcome EXCEPT ![t] = None]
    /\ ncalls' = ncalls + 1

\* CString::into_raw: the address of a block that was not live, named after
\* the thread it is handed to
IntoRaw(live, t) == IF t \notin live THEN t ELSE NumThreads + t

\* CString::new(result).unwrap().into_raw(): the result leaves the library
\* in a buffer of its own, whose pointer the caller gets
ReturnString(t) ==
    /\ heap' = heap \cup {IntoRaw(heap, t)}
    /\ held' = [held EXCEPT ![t] = IntoRaw(heap, t)]

\* ---------------------------------------------------------- bifrost_init
CallInit(t) ==
    /\ CanStart(t)
    /\ StartCall(t, [op |-> "init", input |-> NoInput, code |-> ""])
    /\ pc' = [pc EXCEPT ![t] = "init_lock"]
    /\ task' = [task EXCEPT ![t] = NoTask]
    /\ result' = [result EXCEPT ![t] = NoResult]
    /\ UNCHANGED <<registry, regOrder, holders, poisoned, aborted, heap, held,
                   nuuid>>

\* HashMap::insert, with the history of first insertions
Register(reg, key, agent) == Insert(reg, key, agent)

Registered(order, reg, key) ==
    IF key \in DOMAIN reg THEN order ELSE Append(order, key)

\* AGENT_REGISTRY.lock().unwrap() in init_agent_system, and under the guard
\* if let Ok(python_agent) = PythonAgent::new() { registry.insert(..) }
InitLock(t) ==
    /\ ~aborted
    /\ pc[t] = "init_lock"
    /\ LockFree
    /\ IF poisoned
       THEN /\ PanicEscapes(t)
            /\ UNCHANGED <<holders, registry, regOrder, pyNew>>
       ELSE /\ holders' = holders \cup {t}
            /\ \E ok \in BOOLEAN :
                 /\ pyNew' = [pyNew EXCEPT ![t] = ok]
                 /\ registry' = IF ok THEN Register(registry, "python", PythonAgent)
                                ELSE registry
                 /\ regOrder' = IF ok THEN Registered(regOrder, registry, "python")
                                ELSE regOrder
            /\ pc' = [pc EXCEPT ![t] = "init_wasm"]
            /\ UNCHANGED aborted
    /\ UNCHANGED <<poisoned, call, task, invoked, result, initRet, envOutcome,
                   heap, held, nuuid, ncalls>>

\* variant: the guard dropped after each registration
InitWasmUnlocking(t) ==
    /\ ~aborted
    /\ pc[t] = "init_wasm"
    /\ registry' = Register(registry, "wasm", WasmAgent)
    /\ regOrder' = Registered(regOrder, registry, "wasm")
    /\ holders' = Unlock(t)
    /\ pc' = [pc EXCEPT ![t] = "init_system"]
    /\ UNCHANGED <<poisoned, aborted, call, task, pyNew, invoked, result,
                   initRet, envOutcome, heap, held, nuuid, ncalls>>

InitWasm(t) ==
    /\ ~aborted
    /\ pc[t] = "init_wasm"
    /\ registry' = Register(registry, "wasm", WasmAgent)
    /\ regOrder' = Registered(regOrder, registry, "wasm")
    /\ pc' = [pc EXCEPT ![t] = "init_system"]
    /\ UNCHANGED <<holders, poisoned, aborted, call, task, pyNew, invoked,
                   result, initRet, envOutcome, heap, held, nuuid, ncalls>>

\* variant: PythonAgent::new()? propagating the failure
InitOutcomePropagating(pythonOk) == IF pythonOk THEN "Ok" ELSE "Err"

\* the value init_agent_system returns after its registrations
InitOutcome(pythonOk) == "Ok"

\* match init_agent_system() { Ok(_) => true, Err(_) => false }
BifrostInitRet(outcome) == IF outcome = "Ok" THEN "true" ELSE "false"

\* the last insert, Ok(()), the guard dropped, bifrost_init returns
InitSystem(t) ==
    /\ ~aborted
    /\ pc[t] = "init_system"
    /\ registry' = Register(registry, "system", SystemAgent)
    /\ regOrder' = Registered(regOrder, registry, "system")
    /\ holders' = Unlock(t)
    /\ initRet' = [initRet EXCEPT ![t] = BifrostInitRet(InitOutcome(pyNew[t]))]
    /\ pc' = [pc EXCEPT ![t] = "idle"]
    /\ UNCHANGED <<poisoned, aborted, call, task, pyNew, invoked, result,
                   envOutcome, heap, held, nuuid, ncalls>>

\* ------------------------------------------ bifrost_execute_task, parsing
\* variant: the lock taken before the text is parsed
CallExecuteTaskLockFirst(t, inputs) ==
    /\ CanStart(t)
    /\ LockFree
    /\ \E input \in inputs :
         LET json == ToStrOr(input) IN
         /\ StartCall(t, [op |-> "execute_task", input |-> input, code |-> ""])
         /\ IF ParseOk(json)
            THEN /\ task' = [task EXCEPT ![t] = ParsedTask(json)]
                 /\ result' = [result EXCEPT ![t] = NoResult]
                 /\ pc' = [pc EXCEPT ![t] = "exec_lock"]
                 /\ UNCHANGED <<heap, held>>
            ELSE /\ task' = [task EXCEPT ![t] = NoTask]
                 /\ result' = [result EXCEPT ![t] = ParseFailure(json)]
                 /\ pc' = [pc EXCEPT ![t] = "idle"]
                 /\ ReturnString(t)
    /\ UNCHANGED <<registry, regOrder, holders, poisoned, aborted, nuuid>>

\* bifrost_execute_task up to the lock: to_str, from_str, and on a parse
\* failure the whole call
CallExecuteTaskWith(t, inputs) ==
    /\ CanStart(t)
    /\ \E input \in inputs :
         LET json == ToStrOr(input) IN
         /\ StartCall(t, [op |-> "execute_task", input |-> input, code |-> ""])
         /\ IF ParseOk(json)
            THEN /\ task' = [task EXCEPT ![t] = ParsedTask(json)]
                 /\ result' = [result EXCEPT ![t] = NoResult]
                 /\ pc' = [pc EXCEPT ![t] = "exec_lock"]
                 /\ UNCHANGED <<heap, held>>
            ELSE /\ task' = [task EXCEPT ![t] = NoTask]
                 /\ result' = [result EXCEPT ![t] = ParseFailure(json)]
                 /\ pc' = [pc EXCEPT ![t] = "idle"]
                 /\ ReturnString(t)
    /\ UNCHANGED <<registry, regOrder, holders, poisoned, aborted, nuuid>>

CallExecuteTask(t) == CallExecuteTaskWith(t, TaskInputs(t))

\* ----------------------------------------------------- bifrost_run_python
\* the task is built around a Uuid::new_v4() id, serialized and handed to
\* execute_agent_task, which parses it back
CallRunPython(t) ==
    /\ CanStart(t)
    /\ nuuid < Len(UuidTable)
    /\ \E code \in CodeInputs :
         LET json == TaskToJson(AgentTask(NewV4(nuuid), "python",
                                          CodeStr(code))) IN
         /\ StartCall(t, [op |-> "run_python",
                          input |-> [utf8 |-> TRUE, text |-> json],
                          code |-> CodeStr(code)])
         /\ IF ParseOk(json)
            THEN /\ task' = [task EXCEPT ![t] = ParsedTask(json)]
                 /\ result' = [result EXCEPT ![t] = NoResult]
                 /\ pc' = [pc EXCEPT ![t] = "exec_lock"]
                 /\ UNCHANGED <<heap, held>>
            ELSE /\ task' = [task EXCEPT ![t] = NoTask]
                 /\ result' = [result EXCEPT ![t] = ParseFailure(json)]
                 /\ pc' = [pc EXCEPT ![t] = "idle"]
                 /\ ReturnString(t)
    /\ nuuid' = nuuid + 1
    /\ UNCHANGED <<registry, regOrder, holders, poisoned, aborted>>

\* ----------------------------------------- execute_agent_task, dispatching
\* AGENT_REGISTRY.lock().unwrap() in execute_agent_task, and under the guard
\* the for loop: the first agent of the iteration that supports the type is
\* entered; with none, the routing failure is returned and the guard dropped
ExecLock(t) ==
    /\ ~aborted
    /\ pc[t] = "exec_lock"
    /\ LockFree
    /\ IF poisoned
       THEN /\ PanicEscapes(t)
            /\ UNCHANGED <<holders, invoked, result, heap, held>>
       ELSE /\ UNCHANGED aborted
            /\ \E order \in IterOrders(registry) :
                 LET i == FirstMatch(registry, order, task[t].agent_type) IN
                 IF i # 0
                 THEN /\ holders' = holders \cup {t}
                      /\ invoked' = [invoked EXCEPT
                                       ![t] = Append(@, registry[order[i]])]
                      /\ pc' = [pc EXCEPT ![t] = "executing"]
                      /\ UNCHANGED <<result, heap, held>>
                 ELSE /\ holders' = Unlock(t)
                      /\ result' = [result EXCEPT ![t] = NoAgentFound(task[t])]
                      /\ pc' = [pc EXCEPT ![t] = "idle"]
                      /\ ReturnString(t)
                      /\ UNCHANGED invoked
    /\ UNCHANGED <<registry, regOrder, poisoned, call, task, pyNew, initRet,
                   envOutcome, nuuid, ncalls>>

CurrentAgent(t) == invoked[t][Len(invoked[t])]

\* variant: the agent taken out of the map for the call and not put back
ExecuteReturnTaking(t) ==
    /\ ~aborted
    /\ pc[t] = "executing"
    /\ \E o \in Outcomes(CurrentAgent(t)), ms \in ElapsedMs :
         /\ envOutcome' = [envOutcome EXCEPT ![t] = o]
         /\ result' = [result EXCEPT
                         ![t] = Execute(CurrentAgent(t), task[t], o, ms)]
    /\ registry' = [k \in { j \in DOMAIN registry :
                               registry[j] # CurrentAgent(t) } |-> registry[k]]
    /\ regOrder' = SelectSeq(regOrder,
                             LAMBDA k : registry[k] # CurrentAgent(t))
    /\ holders' = Unlock(t)
    /\ pc' = [pc EXCEPT ![t] = "idle"]
    /\ ReturnString(t)
    /\ UNCHANGED <<poisoned, aborted, call, task, pyNew, invoked, initRet,
                   nuuid, ncalls>>

\* agent.execute(&task) returns: the result is serialized and returned, the
\* guard dropped
ExecuteReturn(t) ==
    /\ ~aborted
    /\ pc[t] = "executing"
    /\ \E o \in Outcomes(CurrentAgent(t)), ms \in ElapsedMs :
         /\ envOutcome' = [envOutcome EXCEPT ![t] = o]
         /\ result' = [result EXCEPT
                         ![t] = Execute(CurrentAgent(t), task[t], o, ms)]
    /\ holders' = Unlock(t)
    /\ pc' = [pc EXCEPT ![t] = "idle"]
    /\ ReturnString(t)
    /\ UNCHANGED <<registry, regOrder, poisoned, aborted, call, task, pyNew,
                   invoked, initRet, nuuid, ncalls>>

\* the agents whose execute runs code that can panic: Python::with_gil and
\* the to_string() of the __result__ object
MayPanic(agent) == agent = PythonAgent

\* agent.execute(&task) panics: the guard is dropped by the unwinding, which
\* poisons the Mutex
ExecutePanics(t) ==
    /\ ~aborted
    /\ pc[t] = "executing"
    /\ MayPanic(CurrentAgent(t))
    /\ holders' = Unlock(t)
    /\ poisoned' = TRUE
    /\ PanicEscapes(t)
    /\ UNCHANGED <<registry, regOrder, call, task, pyNew, invoked, result,
                   initRet, envOutcome, heap, held, nuuid, ncalls>>

\* ---------------------------------------------------- bifrost_free_string
\* variant: the buffer forgotten instead of dropped
FromRawForget(live, ptr) == live

\* variant: no null test; CString::from_raw of a null pointer is undefined
\* and is taken to release some live block
FromRawUnchecked(live, ptr) ==
    IF ptr # Null \/ live = {} THEN live \ {ptr}
    ELSE live \ {CHOOSE a \in live : TRUE}

\* if !ptr.is_null() { let _ = CString::from_raw(ptr); }: the buffer at ptr
\* is dropped
FromRaw(live, ptr) == IF ptr # Null THEN live \ {ptr} ELSE live

\* the caller hands back the pointer it holds, null if it holds none, and
\* keeps nothing of the call that is over
BifrostFreeString(t) ==
    /\ ~aborted
    /\ pc[t] = "idle"
    /\ call' = [call EXCEPT ![t] = NoCall]
    /\ heap' = FromRaw(heap, held[t])
    /\ held' = [held EXCEPT ![t] = Null]
    /\ task' = [task EXCEPT ![t] = NoTask]
    /\ result' = [result EXCEPT ![t] = NoResult]
    /\ invoked' = [invoked EXCEPT ![t] = <<>>]
    /\ pyNew' = [pyNew EXCEPT ![t] = FALSE]
    /\ initRet' = [initRet EXCEPT ![t] = "none"]
    /\ envOutcome' = [envOutcome EXCEPT ![t] = None]
    /\ UNCHANGED <<registry, regOrder, holders, poisoned, aborted, pc, nuuid,
                   ncalls>>

Next ==
    \E t \in Threads :
        \/ CallInit(t)
        \/ InitLock(t)
        \/ InitWasm(t)
        \/ InitSystem(t)
        \/ CallExecuteTask(t)
        \/ CallRunPython(t)
        \/ ExecLock(t)
        \/ ExecuteReturn(t)
        \/ ExecutePanics(t)
        \/ BifrostFreeString(t)

Spec == Init /\ [][Next]_vars

\* well-formed tasks with distinct ids, one kind for each backend and one
\* that no backend supports
DispatchKinds == {"python", "wasm", "bash", "script"}

DispatchInputs(t) ==
    { [utf8 |-> TRUE, text |-> JsonObject(FieldNames, TRUE, IdOf(t), k, c)] :
        k \in DispatchKinds, c \in Commands }

\* threads that initialize and dispatch, when every agent.execute returns
LiveNext ==
    \E t \in Threads :
        \/ CallInit(t)
        \/ InitLock(t)
        \/ InitWasm(t)
        \/ InitSystem(t)
        \/ CallExecuteTaskWith(t, DispatchInputs(t))
        \/ ExecLock(t)
        \/ ExecuteReturn(t)
        \/ BifrostFreeString(t)

\* a thread inside an entry point keeps running, every agent.execute
\* returns, and a thread waiting for the Mutex gets it if it is free again
\* and again
Fairness ==
    \A t \in Threads :
        /\ WF_vars(InitWasm(t) \/ InitSystem(t) \/ ExecuteReturn(t))
        /\ SF_vars(InitLock(t) \/ ExecLock(t))

LiveSpec == Init /\ [][LiveNext]_vars /\ Fairness

TypeOK ==
    /\ DOMAIN registry \subseteq {"python", "wasm", "system"}
    /\ holders \subseteq Threads
    /\ poisoned \in BOOLEAN
    /\ aborted \in BOOLEAN
    /\ heap \subseteq 1..(2 * NumThreads)
    /\ nuuid \in 0..MaxCalls
    /\ ncalls \in 0..MaxCalls

\* ----------------------------------------------------------------- claims
AllKeys == {"python", "wasm", "system"}

\* the thread's last call has returned a value
Returned(t) == pc[t] = "idle" /\ call[t].op # "none"

\* the input is a schema-valid TaskDescriptor in valid UTF-8
SchemaValid(input) ==
    /\ input.utf8
    /\ input.text.syntax = "object"
    /\ FieldNames \subseteq input.text.present
    /\ input.text.typed

\* the descriptor the caller of the thread's current call sent
SentTask(t) ==
    [id |-> call[t].input.text.id,
     agent_type |-> call[t].input.text.agent_type,
     command |-> call[t].input.text.command,
     args |-> "[]", environment |-> "{}"]

IsDispatch(t) ==
    /\ call[t].op \in {"execute_task", "run_python"}
    /\ SchemaValid(call[t].input)

\* the step in which the thread's dispatch does its lookup under the lock
LookupStep(t) == pc[t] = "exec_lock" /\ pc'[t] \in {"executing", "idle"}

\* the agent registered earliest among those that support the type, as a
\* sequence of at most one agent
FirstRegistered(order, reg, agent_type) ==
    LET hits == { i \in DOMAIN order : Supports(reg[order[i]], agent_type) }
    IN IF hits = {} THEN <<>>
       ELSE <<reg[order[CHOOSE i \in hits : \A j \in hits : i <= j]]>>

\* C1: a dispatch enters execute on exactly the backend registered earliest
\* among those supporting the task's kind, once, and on no other backend.
C1_FirstRegisteredBackendRuns ==
    [][\A t \in Threads :
        /\ LookupStep(t) =>
             invoked'[t] = FirstRegistered(regOrder, registry,
                                           task[t].agent_type)
        /\ pc[t] = "executing" => invoked'[t] = invoked[t]]_vars

C1_Witness ==
    \E t \in Threads :
        /\ Returned(t)
        /\ IsDispatch(t)
        /\ SentTask(t).agent_type = "bash"
        /\ DOMAIN registry = AllKeys
        /\ invoked[t] = <<SystemAgent>>
        /\ result[t].output = Fmt("stdout", "cmd")

\* C2: a dispatch whose kind no registered backend supports (the empty
\* registry included) enters no backend and returns success = false, the
\* task's id, execution_time_ms = 0 and "No agent found for type: <kind>".
C2_RoutingFailure ==
    [][\A t \in Threads :
        (/\ LookupStep(t)
         /\ \A k \in DOMAIN registry :
               ~Supports(registry[k], SentTask(t).agent_type))
        => /\ pc'[t] = "idle"
           /\ invoked'[t] = <<>>
           /\ result'[t].task_id = SentTask(t).id
           /\ result'[t].success = FALSE
           /\ result'[t].execution_time_ms = 0
           /\ result'[t].error =
                Some(Fmt("No agent found for type: ",
                         SentTask(t).agent_type))]_vars

C2_Witness ==
    \E t, u \in Threads :
        /\ Returned(t) /\ IsDispatch(t)
        /\ Returned(u) /\ IsDispatch(u)
        /\ SentTask(t).agent_type = "system"
        /\ result[t].error = Some(Fmt("No agent found for type: ", "system"))
        /\ SentTask(u).agent_type = "System"
        /\ result[u].error = Some(Fmt("No agent found for type: ", "System"))
        /\ DOMAIN registry = AllKeys

\* C3: an input of execute_task that is no schema-valid TaskDescriptor
\* (malformed JSON, missing fields, wrong types, invalid UTF-8) enters no
\* backend and returns task_id = "unknown", success = false and an error
\* starting with "Failed to parse task JSON: ".
C3_ParseFailure ==
    \A t \in Threads :
        (call[t].op = "execute_task" /\ ~SchemaValid(call[t].input))
        => /\ pc[t] = "idle"
           /\ invoked[t] = <<>>
           /\ result[t].task_id = "unknown"
           /\ result[t].success = FALSE
           /\ Len(result[t].error) = 1
           /\ result[t].error[1][1] = "Failed to parse task JSON: "

C3_Witness ==
    \E t \in Threads :
        /\ Returned(t)
        /\ call[t].op = "execute_task"
        /\ ~call[t].input.utf8
        /\ call[t].input.text.present = FieldNames
        /\ result[t].task_id = "unknown"
        /\ DOMAIN registry = AllKeys

\* C4: no result has success = false with error = None.
C4_ErrorNoneOnlyOnSuccess ==
    \A t \in Threads :
        (Returned(t) /\ call[t].op \in {"execute_task", "run_python"})
        => (result[t].error = None => result[t].success)

\* C5: at most one thread is inside a backend's execute at any time, and it
\* holds the registry lock, which no two threads ever hold together.
C5_DispatchSerialized ==
    LET inExecute == { t \in Threads : pc[t] = "executing" } IN
    /\ Cardinality(inExecute) <= 1
    /\ inExecute \subseteq holders
    /\ Cardinality(holders) <= 1

C5_Witness ==
    \E t, u \in Threads :
        /\ pc[t] = "executing" /\ CurrentAgent(t) = SystemAgent
        /\ pc[u] = "exec_lock" /\ task[u].agent_type = "wasm"
        /\ holders = {t}

\* C6: with every backend execute returning and the lock granted fairly,
\* every started dispatch returns, no longer holding the registry lock, and
\* a held lock is always released again.
C6_DispatchTerminates ==
    /\ \A t \in Threads :
         (pc[t] \in {"exec_lock", "executing"})
            ~> (pc[t] = "idle" /\ t \notin holders)
    /\ (holders # {}) ~> (holders = {})

C6_Witness ==
    \E t, u \in Threads :
        /\ t # u
        /\ Returned(t) /\ IsDispatch(t) /\ invoked[t] # <<>>
        /\ Returned(u) /\ IsDispatch(u) /\ invoked[u] # <<>>
        /\ result[t].task_id # result[u].task_id
        /\ holders = {}


\* C7: the result returned to the caller of a dispatch carries the id of
\* the task that caller sent, whichever backend ran and on a routing
\* failure, and the descriptor handed to the backend stays the one sent.
C7_ResultCarriesOwnId ==
    \A t \in Threads :
        IsDispatch(t) =>
            /\ pc[t] \in {"exec_lock", "executing", "idle"} =>
                 task[t] = SentTask(t)
            /\ Returned(t) => result[t].task_id = SentTask(t).id

C7_Witness ==
    \E t, u \in Threads :
        /\ t # u
        /\ Returned(t) /\ IsDispatch(t) /\ invoked[t] = <<WasmAgent>>
        /\ Returned(u) /\ IsDispatch(u) /\ invoked[u] = <<SystemAgent>>
        /\ result[t].task_id = IdOf(t)
        /\ result[u].task_id = IdOf(u)

\* C8: once the registry lock is poisoned, later init, execute_task and
\* run_script calls still return a value: no call ends in a panic raised at
\* the lock, before any backend was entered.
C8_PoisonedLockStillReturns ==
    \A t \in Threads : pc[t] = "panicked" => invoked[t] # <<>>

\* the routing the specification's table states
SpecRoute(agent_type) ==
    CASE agent_type = "script" -> <<PythonAgent>>
      [] agent_type = "sandbox" -> <<WasmAgent>>
      [] agent_type \in {"system", "shell", "bash"} -> <<SystemAgent>>
      [] OTHER -> <<>>

\* the routing of the capability predicates in the code
CodeRoute(agent_type) ==
    CASE agent_type = "python" -> <<PythonAgent>>
      [] agent_type = "wasm" -> <<WasmAgent>>
      [] agent_type \in {"system", "shell", "bash"} -> <<SystemAgent>>
      [] OTHER -> <<>>

\* C9 as stated: with the three backends registered, "script" selects the
\* script backend, "sandbox" the sandboxed backend, "system", "shell" and
\* "bash" the shell backend, and any other kind is a routing failure.
C9_SpecKindsRoute ==
    [][\A t \in Threads :
        (LookupStep(t) /\ DOMAIN registry = AllKeys)
        => invoked'[t] = SpecRoute(SentTask(t).agent_type)]_vars

\* C9, amended: with the three backends registered, "python" selects the
\* script backend, "wasm" the sandboxed backend, "system", "shell" and
\* "bash" the shell backend; the match is exact and case-sensitive, and any
\* other kind, "script" and "sandbox" included, is a routing failure.
C9_CodeKindsRoute ==
    [][\A t \in Threads :
        (LookupStep(t) /\ DOMAIN registry = AllKeys)
        => /\ invoked'[t] = CodeRoute(SentTask(t).agent_type)
           /\ (CodeRoute(SentTask(t).agent_type) = <<>>) =>
                 /\ pc'[t] = "idle"
                 /\ result'[t].success = FALSE
                 /\ result'[t].error =
                      Some(Fmt("No agent found for type: ",
                               SentTask(t).agent_type))]_vars

C9_Witness ==
    \E t, u \in Threads :
        /\ DOMAIN registry = AllKeys
        /\ Returned(t) /\ IsDispatch(t)
        /\ SentTask(t).agent_type = "script"
        /\ result[t].error = Some(Fmt("No agent found for type: ", "script"))
        /\ pc[u] = "executing"
        /\ SentTask(u).agent_type = "python"
        /\ invoked[u] = <<PythonAgent>>

DispatchReturns(t) ==
    /\ pc'[t] = "idle"
    /\ call'[t].op \in {"execute_task", "run_python"}
    /\ pc[t] # "idle" \/ call'[t] # call[t]

\* the step in which the thread gives the buffer it holds to
\* bifrost_free_string
ReleaseStep(t) == held[t] # Null /\ held'[t] # held[t]

\* C11: every dispatch that returns, on the parse-failure, routing-failure
\* and backend paths alike, hands its caller one buffer that was not live
\* and allocates nothing else; a release frees exactly the buffer handed
\* back; so the live buffers are at all times exactly those some caller
\* still holds, and none is live once every caller has released its own.
C11_OneBufferPerDispatch ==
    [][/\ \A t \in Threads :
            /\ DispatchReturns(t) =>
                 /\ held'[t] # Null
                 /\ held'[t] \notin heap
                 /\ heap' = heap \cup {held'[t]}
            /\ ReleaseStep(t) =>
                 /\ held[t] \in heap
                 /\ held'[t] = Null
                 /\ heap' = heap \ {held[t]}
       /\ heap' = { held'[t] : t \in Threads } \ {Null}]_vars

\* two bifrost_run_python calls have returned, nothing panicked, and every
\* caller has released what it got
C11_Witness ==
    /\ nuuid = 2
    /\ \A t \in Threads : pc[t] = "idle" /\ call[t] = NoCall /\ held[t] = Null
    /\ heap = {}

\* the step in which a thread that holds no buffer, back from bifrost_init,
\* calls bifrost_free_string with the null pointer
ReleaseNullStep(t) ==
    /\ pc[t] = "idle" /\ pc'[t] = "idle"
    /\ held[t] = Null
    /\ call[t].op = "init"
    /\ call'[t] = NoCall

\* C12: bifrost_free_string(null) frees nothing: the live buffers, the
\* pointers the callers hold, the registry and the lock are as before.
C12_ReleaseNullIsNoOp ==
    [][\A t \in Threads :
        ReleaseNullStep(t) =>
            /\ heap' = heap
            /\ held' = held
            /\ registry' = registry
            /\ regOrder' = regOrder
            /\ holders' = holders
            /\ poisoned' = poisoned]_vars

\* the only call so far was a bifrost_init, and its caller has since called
\* bifrost_free_string, holding nothing, with the registry populated
C12_Witness ==
    /\ ncalls = 1
    /\ DOMAIN registry # {}
    /\ \A t \in Threads : pc[t] = "idle" /\ call[t] = NoCall

\* the step in which the thread calls bifrost_run_python
RunPythonStarts(t) == call'[t].op = "run_python" /\ call'[t] # call[t]

\* the identifiers Uuid::new_v4 generated before this step
GeneratedIds == { NewV4(i) : i \in 0..(nuuid - 1) }

\* what C13 says of a bifrost_run_python call whose task is of the kind
\* given: the task has an id generated for it that no other call got, the
\* kind, the code as command and empty args and environment, and the
\* result returned for it carries that id
RunPythonTaskOfKind(t, kind) ==
    /\ RunPythonStarts(t) =>
         /\ task'[t].id \notin GeneratedIds
         /\ \A u \in Threads \ {t} :
               call[u].op = "run_python" => task[u].id # task'[t].id
         /\ task'[t].agent_type = kind
         /\ task'[t].command = call'[t].code
         /\ task'[t].args = "[]"
         /\ task'[t].environment = "{}"
    /\ (DispatchReturns(t) /\ call'[t].op = "run_python") =>
         result'[t].task_id = task'[t].id

\* C13 as stated: the task of every bifrost_run_python call has a fresh id,
\* kind "script", empty args and environment, and the result carries the id.
C13_ScriptKindTask ==
    [][\A t \in Threads : RunPythonTaskOfKind(t, "script")]_vars

\* C13, amended: the task of every bifrost_run_python call has a fresh id,
\* kind "python", empty args and environment, and the result carries the id.
C13_PythonKindTask ==
    [][\A t \in Threads : RunPythonTaskOfKind(t, "python")]_vars

\* two callers are back from bifrost_run_python with results under two ids
C13_Witness ==
    \E t, u \in Threads :
        /\ t # u
        /\ Returned(t) /\ call[t].op = "run_python"
        /\ Returned(u) /\ call[u].op = "run_python"
        /\ result[t].task_id = task[t].id
        /\ result[u].task_id = task[u].id
        /\ task[t].id # task[u].id
        /\ task[t].agent_type = "python"

\* the thread is inside init_agent_system
InInit(t) == pc[t] \in {"init_lock", "init_wasm", "init_system"}

\* the thread takes a step: it moves on in its call, starts one, or
\* releases a buffer
Steps(t) ==
    pc'[t] # pc[t] \/ call'[t] # call[t] \/ held'[t] # held[t]

\* C14: the registered backends and their order change only in a step of
\* init: every step of bifrost_execute_task, bifrost_run_python and
\* bifrost_free_string, on every path, leaves them as they were.
C14_OnlyInitWritesRegistry ==
    [][/\ \A t \in Threads :
            (Steps(t) /\ ~InInit(t)) =>
                registry' = registry /\ regOrder' = regOrder
       /\ (registry' # registry \/ regOrder' # regOrder) =>
            \E t \in Threads : InInit(t) /\ Steps(t)]_vars

\* with the three agents registered, one caller is back from
\* bifrost_execute_task through a backend, another from bifrost_run_python
C14_Witness ==
    \E t, u \in Threads :
        /\ DOMAIN registry = AllKeys
        /\ Len(regOrder) = Cardinality(AllKeys)
        /\ Returned(t) /\ call[t].op = "execute_task"
        /\ invoked[t] = <<WasmAgent>>
        /\ Returned(u) /\ call[u].op = "run_python"
        /\ invoked[u] = <<PythonAgent>>

\* the thread is back from a dispatch that ran the shell backend
RanShell(t) == Returned(t) /\ IsDispatch(t) /\ invoked[t] = <<SystemAgent>>

\* C15: when the shell backend's process was spawned, success is true
\* exactly if it exited with status zero, output is its standard output,
\* and error is present exactly if its standard error is non-empty,
\* whatever success is; when the spawn failed, success is false and error
\* is "System command error: <message>".
C15_ShellResult ==
    \A t \in Threads :
        RanShell(t) =>
            LET o == envOutcome[t]
                r == result[t]
            IN  /\ o \in ShOutcomes
                /\ o[1] = "Ok" =>
                     /\ r.success <=> o[2] = "zero"
                     /\ o[2] = "nonzero" => r.success = FALSE
                     /\ r.output = Fmt("stdout", SentTask(t).command)
                     /\ r.error # None <=> o[3] # ""
                     /\ o[3] # "" => r.error = Some(Fmt("stderr", o[3]))
                /\ o[1] = "Err" =>
                     /\ r.success = FALSE
                     /\ r.error = Some(Fmt("System command error: ", o[2]))

\* one process exited non-zero with nothing on stderr, another exited zero
\* with something on stderr
C15_Witness ==
    \E t, u \in Threads :
        /\ RanShell(t) /\ envOutcome[t] = <<"Ok", "nonzero", "">>
        /\ result[t].success = FALSE /\ result[t].error = None
        /\ RanShell(u) /\ envOutcome[u] = <<"Ok", "zero", "diagnostic">>
        /\ result[u].success = TRUE /\ result[u].error # None

\* the step in which the execute the thread is in comes back after a
\* failure inside the backend: py.run returned Err, or the spawn failed
ExecuteFailed(t) ==
    /\ pc[t] = "executing"
    /\ envOutcome'[t] # None
    /\ envOutcome'[t][1] = "Err"

RegistrationStep(t) == InInit(t) /\ pc'[t] \notin {pc[t], "panicked"}

RegistrationKey(t) ==
    CASE pc[t] = "init_lock" -> "python"
      [] pc[t] = "init_wasm" -> "wasm"
      [] pc[t] = "init_system" -> "system"

Registering(t) == pc[t] \in {"init_wasm", "init_system"}

\* C18: an init between its registrations holds the lock, so the lookup of
\* a dispatch never happens while some init is between its registrations:
\* the registry it iterates is empty, as before the first init, or holds
\* at least the sandbox and shell backends that every init registers.
C18_InitAtomic ==
    [][/\ \A u \in Threads : Registering(u) => holders = {u}
       /\ \A t \in Threads :
            LookupStep(t) =>
                /\ \A u \in Threads : ~Registering(u)
                /\ \/ DOMAIN registry = {}
                   \/ {"wasm", "system"} \subseteq DOMAIN registry]_vars

\* a dispatch of kind "system" waits for the lock while an init holds it
\* with the shell backend not yet registered
C18_Witness ==
    \E t, u \in Threads :
        /\ pc[u] = "init_system"
        /\ "wasm" \in DOMAIN registry
        /\ "system" \notin DOMAIN registry
        /\ holders = {u}
        /\ pc[t] = "exec_lock"
        /\ task[t].agent_type = "system"

\* the call returns the "unknown" failure in its first step and leaves the
\* lock as it is
ReturnsUnknownAtOnce(t) ==
    /\ pc'[t] = "idle"
    /\ result'[t].task_id = "unknown"
    /\ result'[t].success = FALSE
    /\ held'[t] # Null
    /\ holders' = holders
    /\ poisoned' = poisoned

\* C19: while another thread holds the lock, a caller can make a
\* bifrost_execute_task call with malformed input, and every such call
\* returns the "unknown" failure at once without touching the lock; a call
\* with a well-formed task, supported or not, goes on to the lock, and one
\* that is at the lock cannot move while it is held.
C19_ParseFailureNeedsNoLock ==
    \A t \in Threads :
        /\ (holders # {} /\ CanStart(t)) =>
             /\ ENABLED (/\ CallExecuteTaskWith(t, MalformedInputs(t))
                         /\ ReturnsUnknownAtOnce(t))
             /\ ~ENABLED (/\ CallExecuteTaskWith(t, MalformedInputs(t))
                          /\ ~ReturnsUnknownAtOnce(t))
             /\ ~ENABLED (/\ CallExecuteTaskWith(t, WellFormedInputs(t))
                          /\ pc'[t] # "exec_lock")
        /\ (holders # {} /\ pc[t] = "exec_lock") => ~ENABLED ExecLock(t)

\* one thread is inside a backend's execute with the lock, and another is
\* back from a call with malformed input, holding the "unknown" result
C19_Witness ==
    \E t, u \in Threads :
        /\ pc[u] = "executing"
        /\ holders = {u}
        /\ Returned(t)
        /\ call[t].op = "execute_task"
        /\ ~SchemaValid(call[t].input)
        /\ result[t].task_id = "unknown"
        /\ held[t] # Null

====
